---- MODULE Spec2Model ----
(***************************************************************************)
(* Model of price_label.py: the command line entry point main, the label   *)
(* pipeline create_label and its helpers format_price and                  *)
(* fetch_product_info.  Text is a sequence of one-character strings.       *)
(***************************************************************************)
EXTENDS Integers, Sequences, FiniteSets, TLC

\* ------------------------------------------------------------------------
\* Bounds of the model
\* ------------------------------------------------------------------------
MaxEanLen == 14
MaxPrice == 1
MaxFmtPrice == 1205
MaxTextWidth == 242

\* ------------------------------------------------------------------------
\* Program constants (create_label, main)
\* ------------------------------------------------------------------------
DPI == 8
HEIGHT_MM == 48
PADDING_LEFT_MM == 5
INTERNAL_MM == 3
BARCODE_MM == 30
EanLen == 13
MinorPerMajor == 100

\* None where a text is expected
None == <<"None">>

\* None where a record is expected
NoneRecord == [none |-> TRUE]

\* the process has not exited
NoExit == 0 - 1

\* ------------------------------------------------------------------------
\* format_price
\* ------------------------------------------------------------------------
DigitChars == <<"0", "1", "2", "3", "4", "5", "6", "7", "8", "9">>

DigitChar(d) == DigitChars[d + 1]

RECURSIVE NatStr(_)
NatStr(n) == IF n < 10 THEN <<DigitChar(n)>>
             ELSE Append(NatStr(n \div 10), DigitChar(n % 10))

\* str(int): decimal digits, with a leading minus sign for a negative value
IntStr(n) == IF n < 0 THEN <<"-">> \o NatStr(0 - n) ELSE NatStr(n)

\* variant of Pad2: the minor units printed without padding
Pad2Unpadded(n) == IntStr(n)

\* f"{n:02d}": the decimal text padded with zeros on the left to width two
Pad2(n) == IF Len(IntStr(n)) < 2 THEN <<"0">> \o IntStr(n) ELSE IntStr(n)

\* the keyword arguments handed to template.format
FormatArgs(price_minor_units) ==
    LET maj == price_minor_units \div MinorPerMajor
        min_units == price_minor_units % MinorPerMajor
        price_str == IntStr(maj) \o <<".">> \o Pad2(min_units)
    IN  [maj |-> IntStr(maj), min |-> Pad2(min_units), price |-> price_str]

\* str.isdigit on the characters the inputs use
IsDigit(s) == Len(s) > 0 /\ \A i \in 1..Len(s) : \E d \in 1..10 : s[i] = DigitChars[d]

\* index of the "}" that closes the replacement field whose name starts at
\* position j; 0 when the template ends first or the name holds a "{"
RECURSIVE FieldEnd(_, _)
FieldEnd(t, j) ==
    IF j > Len(t) THEN 0
    ELSE IF t[j] = "{" THEN 0
    ELSE IF t[j] = "}" THEN j
    ELSE FieldEnd(t, j + 1)

\* variant of FieldValue: an unknown name is replaced by the empty text
FieldValueLenient(name, kw) ==
    IF name = <<"m", "a", "j">> THEN [err |-> "none", text |-> kw.maj]
    ELSE IF name = <<"m", "i", "n">> THEN [err |-> "none", text |-> kw.min]
    ELSE IF name = <<"p", "r", "i", "c", "e">> THEN [err |-> "none", text |-> kw.price]
    ELSE [err |-> "none", text |-> <<>>]

\* the value of one replacement field of str.format called with keyword
\* arguments only
FieldValue(name, kw) ==
    IF name = <<>> \/ IsDigit(name) THEN [err |-> "IndexError", text |-> <<>>]
    ELSE IF name = <<"m", "a", "j">> THEN [err |-> "none", text |-> kw.maj]
    ELSE IF name = <<"m", "i", "n">> THEN [err |-> "none", text |-> kw.min]
    ELSE IF name = <<"p", "r", "i", "c", "e">> THEN [err |-> "none", text |-> kw.price]
    ELSE [err |-> "KeyError", text |-> <<>>]

Prepend(s, r) == IF r.err = "none" THEN [err |-> "none", text |-> s \o r.text] ELSE r

\* str.format scanning the template from position i, left to right
RECURSIVE StrFormat(_, _, _)
StrFormat(t, i, kw) ==
    IF i > Len(t) THEN [err |-> "none", text |-> <<>>]
    ELSE IF t[i] = "{" THEN
        IF i = Len(t) THEN [err |-> "ValueError", text |-> <<>>]
        ELSE IF t[i + 1] = "{" THEN Prepend(<<"{">>, StrFormat(t, i + 2, kw))
        ELSE LET e == FieldEnd(t, i + 1) IN
             IF e = 0 THEN [err |-> "ValueError", text |-> <<>>]
             ELSE LET v == FieldValue(SubSeq(t, i + 1, e - 1), kw) IN
                  IF v.err # "none" THEN v
                  ELSE Prepend(v.text, StrFormat(t, e + 1, kw))
    ELSE IF t[i] = "}" THEN
        IF i < Len(t) /\ t[i + 1] = "}" THEN Prepend(<<"}">>, StrFormat(t, i + 2, kw))
        ELSE [err |-> "ValueError", text |-> <<>>]
    ELSE Prepend(<<t[i]>>, StrFormat(t, i + 1, kw))

format_price(price_minor_units, template) ==
    StrFormat(template, 1, FormatArgs(price_minor_units))

DefaultTemplate == <<"$", "{", "p", "r", "i", "c", "e", "}">>
ZlotyTemplate == <<"{", "m", "a", "j", "}", ".", "{", "m", "i", "n", "}", " ", "z", "l">>
BogusTemplate == <<"{", "b", "o", "g", "u", "s", "}">>
MajBogusTemplate == <<"{", "m", "a", "j", "}", "{", "x", "}">>

\* templates a caller can pass with --price-format
TemplateInputs ==
    { DefaultTemplate, ZlotyTemplate, BogusTemplate,
      MajBogusTemplate,
      <<"{", "m", "a", "j">>,
      <<"{", "}">>,
      <<"{", "{", "m", "i", "n", "}", "}">>,
      <<"}", "$">>,
      <<>> }

\* ------------------------------------------------------------------------
\* State
\* ------------------------------------------------------------------------
VARIABLES
    args,          \* the parsed command line: ean, price, lang, price_format, name, producer
    pc,            \* position in main / create_label
    calls,         \* the functions create_label has called so far, in order
    requests,      \* hosts of the HTTP GET requests issued so far
    response,      \* the answer to the HTTP GET request, NoneRecord without one
    product_info,  \* the product record of create_label, NoneRecord before it is resolved
    price_text,    \* the formatted price, None before it is formatted
    barcode_img,   \* TRUE once generate_barcode_image returned an image
    layout,        \* the computed geometry, NoneRecord before it is measured
    canvas,        \* TRUE once the final image is painted
    file,          \* what is at the output path
    saves,         \* number of calls of img.save
    out,           \* the lines printed so far
    exit_code,     \* the exit code of the process, NoExit while it runs
    ret            \* the value returned by a function that is called on its own

vars == <<args, pc, calls, requests, response, product_info, price_text,
          barcode_img, layout, canvas, file, saves, out, exit_code, ret>>

\* ------------------------------------------------------------------------
\* Inputs
\* ------------------------------------------------------------------------
\* an identifier of n characters, all digits but for the non-digit at position k
EanText(n, k) == [i \in 1..n |-> IF i = k THEN "a" ELSE DigitChar(i % 10)]

EanInputs == { EanText(n, k) : n \in 0..MaxEanLen, k \in {0, 1, EanLen} }

PriceInputs == ((0 - 1)..MaxPrice) \cup {299}

LangInputs == {"world", "pl", ""}

NameInputs == {None, <<>>, <<"T", "e", "a">>}

ProducerInputs == {None, <<>>, <<"A", "c", "m", "e">>}

\* variant of Truthy: only None counts as not given
TruthyNotNone(x) == x # None

\* bool(x) of an optional text: None and the empty string are false
Truthy(x) == x # None /\ x # <<>>

\* ------------------------------------------------------------------------
\* fetch_product_info
\* ------------------------------------------------------------------------
\* host of the request for a language
Domain(language) ==
    IF language # "" /\ language # "world" THEN language \o ".openfoodfacts.org"
    ELSE "world.openfoodfacts.org"

LookupName == <<"C", "o", "l", "a">>
LookupBrand == <<"C", "o", "c", "a">>
UnknownProduct == <<"U", "n", "k", "n", "o", "w", "n", " ", "P">>
UnknownBrand == <<"U", "n", "k", "n", "o", "w", "n", " ", "B">>

\* what the remote service can answer: the transport raising, or a status
\* code with a JSON body; an absent key of the product is None
Responses ==
    { [raised |-> TRUE, status_code |-> 0, status |-> 0, product_name |-> None, brands |-> None] }
    \cup
    [ raised : {FALSE}, status_code : {200, 404}, status : {0, 1},
      product_name : {None, <<>>, LookupName}, brands : {None, <<>>, LookupBrand} ]

\* dict.get(key, default) on an optional key
GetOr(value, default) == IF value = None THEN default ELSE value

\* variant of fetch_product_info: the status field of the body is not checked
fetch_product_info_unchecked(ean_code, resp) ==
    IF resp.raised THEN [err |-> "ConnectionError", info |-> NoneRecord]
    ELSE IF resp.status_code # 200 THEN [err |-> "HTTP", info |-> NoneRecord]
    ELSE [err |-> "none",
          info |-> [name |-> GetOr(resp.product_name, UnknownProduct),
                    producer |-> GetOr(resp.brands, UnknownBrand),
                    ean |-> ean_code]]

\* the record returned for a response, or the exception raised
fetch_product_info(ean_code, resp) ==
    IF resp.raised THEN [err |-> "ConnectionError", info |-> NoneRecord]
    ELSE IF resp.status_code # 200 THEN [err |-> "HTTP", info |-> NoneRecord]
    ELSE IF resp.status # 1 THEN [err |-> "NotFound", info |-> NoneRecord]
    ELSE [err |-> "none",
          info |-> [name |-> GetOr(resp.product_name, UnknownProduct),
                    producer |-> GetOr(resp.brands, UnknownBrand),
                    ean |-> ean_code]]

\* ------------------------------------------------------------------------
\* create_label: geometry
\* ------------------------------------------------------------------------
height_px == HEIGHT_MM * DPI
padding_left_px == PADDING_LEFT_MM * DPI
padding_internal == INTERNAL_MM * DPI
barcode_width == BARCODE_MM * DPI

Max(a, b) == IF a >= b THEN a ELSE b

\* variant of LeftWidth: the barcode width is left out of the maximum
LeftWidthTextOnly(name_width, producer_width, ean_width) ==
    Max(Max(name_width, producer_width), ean_width) + padding_internal * 2

LeftWidth(name_width, producer_width, ean_width) ==
    Max(Max(name_width, producer_width), Max(ean_width, barcode_width))
        + padding_internal * 2

RightWidth(price_width) == price_width + padding_internal * 2

Geometry(name_width, producer_width, ean_width, price_width) ==
    LET left_width == LeftWidth(name_width, producer_width, ean_width)
        right_width == RightWidth(price_width)
    IN  [ left_width |-> left_width,
          right_width |-> right_width,
          total_width |-> padding_left_px + left_width + right_width,
          height_px |-> height_px,
          x_left |-> padding_left_px + padding_internal,
          x_price |-> padding_left_px + left_width + padding_internal,
          separator_x |-> padding_left_px + left_width,
          widths |-> <<name_width, producer_width, ean_width, price_width>> ]

\* draw.textbbox: the width of an empty text is 0, that of any other text
\* depends on the font that was loaded
TextWidths(text) == IF text = <<>> THEN {0} ELSE {1, MaxTextWidth}

\* ------------------------------------------------------------------------
\* main and create_label
\* ------------------------------------------------------------------------
\* variant of ValidArgs: the length of the identifier is not checked
ValidArgsAnyLength(a) == IsDigit(a.ean) /\ a.price >= 0

\* the two checks of main on the parsed arguments
ValidArgs(a) == IsDigit(a.ean) /\ Len(a.ean) = EanLen /\ a.price >= 0

\* variant of NeedsLookup: the lookup is made whatever the overrides are
NeedsLookupAlways(custom_name, custom_producer) == TRUE

\* create_label asks the remote service unless both overrides are given
NeedsLookup(custom_name, custom_producer) ==
    ~(Truthy(custom_name) /\ Truthy(custom_producer))

\* variant of Override: the looked-up record is kept as it is
OverrideDropped(info, custom_name, custom_producer) == info

\* the partial override of a looked-up record
Override(info, custom_name, custom_producer) ==
    [ name |-> IF Truthy(custom_name) THEN custom_name ELSE info.name,
      producer |-> IF Truthy(custom_producer) THEN custom_producer ELSE info.producer,
      ean |-> info.ean ]

\* variant of MainReturn: the except clause falls through to return 0
MainReturnZero(err) == 0

\* the value main returns: 1 from the except clause, 0 otherwise
MainReturn(err) == IF err = "none" THEN 0 ELSE 1

ErrorLine(err) == [line |-> "Error", msg |-> err]

\* an exception err leaves create_label and reaches the except clause of main
Raise(err) ==
    /\ out' = Append(out, ErrorLine(err))
    /\ exit_code' = MainReturn(err)
    /\ pc' = "done"

\* parser.error: usage message on stderr, SystemExit(2)
ParserError(msg) ==
    /\ out' = Append(out, [line |-> "usage", msg |-> msg])
    /\ exit_code' = 2
    /\ pc' = "done"

Init ==
    /\ args \in [ ean : EanInputs, price : PriceInputs, lang : LangInputs,
                  price_format : TemplateInputs,
                  name : NameInputs, producer : ProducerInputs ]
    /\ pc = "main"
    /\ calls = <<>>
    /\ requests = <<>>
    /\ response = NoneRecord
    /\ product_info = NoneRecord
    /\ price_text = None
    /\ barcode_img = FALSE
    /\ layout = NoneRecord
    /\ canvas = FALSE
    /\ file \in {"absent", "old"}
    /\ saves = 0
    /\ out = <<>>
    /\ exit_code = NoExit
    /\ ret = NoneRecord

\* main: validation of the parsed arguments
Validate ==
    /\ pc = "main"
    /\ IF ValidArgs(args) THEN pc' = "resolve" /\ UNCHANGED <<out, exit_code>>
       ELSE IF ~(IsDigit(args.ean) /\ Len(args.ean) = EanLen)
            THEN ParserError("EAN must be exactly 13 digits")
            ELSE ParserError("Price must be non-negative")
    /\ UNCHANGED <<args, calls, requests, response, product_info, price_text,
                   barcode_img, layout, canvas, file, saves, ret>>

\* create_label: both overrides given, no lookup
ResolveCustom ==
    /\ pc = "resolve"
    /\ ~NeedsLookup(args.name, args.producer)
    /\ calls' = Append(calls, "create_label")
    /\ product_info' = [name |-> args.name, producer |-> args.producer, ean |-> args.ean]
    /\ pc' = "format"
    /\ UNCHANGED <<args, requests, response, price_text, barcode_img, layout,
                   canvas, file, saves, out, exit_code, ret>>

\* create_label: lookup, then the partial override
ResolveLookup ==
    /\ pc = "resolve"
    /\ NeedsLookup(args.name, args.producer)
    /\ calls' = calls \o <<"create_label", "fetch_product_info">>
    /\ requests' = Append(requests, Domain(args.lang))
    /\ \E resp \in Responses :
          /\ response' = resp
          /\ LET r == fetch_product_info(args.ean, resp) IN
             IF r.err # "none" THEN Raise(r.err) /\ UNCHANGED product_info
             ELSE /\ product_info' = Override(r.info, args.name, args.producer)
                  /\ pc' = "format"
                  /\ UNCHANGED <<out, exit_code>>
    /\ UNCHANGED <<args, price_text, barcode_img, layout, canvas, file, saves, ret>>

\* create_label: format the price
Format ==
    /\ pc = "format"
    /\ calls' = Append(calls, "format_price")
    /\ LET r == format_price(args.price, args.price_format) IN
          IF r.err # "none" THEN Raise(r.err) /\ UNCHANGED price_text
          ELSE /\ price_text' = r.text
               /\ pc' = "barcode"
               /\ UNCHANGED <<out, exit_code>>
    /\ UNCHANGED <<args, requests, response, product_info, barcode_img, layout,
                   canvas, file, saves, ret>>

\* create_label: generate_barcode_image; the encoder or the image writer may raise
Barcode ==
    /\ pc = "barcode"
    /\ calls' = Append(calls, "generate_barcode_image")
    /\ \/ barcode_img' = TRUE /\ pc' = "measure" /\ UNCHANGED <<out, exit_code>>
       \/ Raise("BarcodeError") /\ UNCHANGED barcode_img
    /\ UNCHANGED <<args, requests, response, product_info, price_text, layout,
                   canvas, file, saves, ret>>

\* create_label: load the fonts, measure the four texts, compute the widths;
\* the font chain never raises, draw.textbbox may
Measure ==
    /\ pc = "measure"
    /\ calls' = Append(calls, "textbbox")
    /\ \/ /\ \E nw \in TextWidths(product_info.name),
                pw \in TextWidths(product_info.producer),
                ew \in TextWidths(<<"E", "A", "N", ":", " ">> \o args.ean),
                cw \in TextWidths(price_text) :
                layout' = Geometry(nw, pw, ew, cw)
          /\ pc' = "paint"
          /\ UNCHANGED <<out, exit_code>>
       \/ Raise("MeasureError") /\ UNCHANGED layout
    /\ UNCHANGED <<args, requests, response, product_info, price_text, barcode_img,
                   canvas, file, saves, ret>>

\* create_label: new image of the total width, texts, barcode, separator
Paint ==
    /\ pc = "paint"
    /\ calls' = Append(calls, "paint")
    /\ \/ canvas' = TRUE /\ pc' = "save" /\ UNCHANGED <<out, exit_code>>
       \/ Raise("PaintError") /\ UNCHANGED canvas
    /\ UNCHANGED <<args, requests, response, product_info, price_text, barcode_img,
                   layout, file, saves, ret>>

\* create_label: img.save writes the output path in place: it succeeds, or
\* raises before anything is written, or raises after part was written
Save ==
    /\ pc = "save"
    /\ calls' = Append(calls, "save")
    /\ saves' = saves + 1
    /\ \/ file' = "complete" /\ pc' = "report" /\ UNCHANGED <<out, exit_code>>
       \/ Raise("OSError") /\ UNCHANGED file
       \/ Raise("OSError") /\ file' = "partial"
    /\ UNCHANGED <<args, requests, response, product_info, price_text, barcode_img,
                   layout, canvas, ret>>

\* create_label: the two prints; main returns 0
Report ==
    /\ pc = "report"
    /\ out' = out \o << [line |-> "Label saved", msg |-> "output_file"],
                        [line |-> "Dimensions", msg |-> <<layout.total_width, layout.height_px>>] >>
    /\ exit_code' = MainReturn("none")
    /\ pc' = "done"
    /\ UNCHANGED <<args, calls, requests, response, product_info, price_text,
                   barcode_img, layout, canvas, file, saves, ret>>

Next ==
    \/ Validate
    \/ ResolveCustom
    \/ ResolveLookup
    \/ Format
    \/ Barcode
    \/ Measure
    \/ Paint
    \/ Save
    \/ Report

Spec == Init /\ [][Next]_vars

\* ------------------------------------------------------------------------
\* format_price called on its own
\* ------------------------------------------------------------------------
InitFormat ==
    /\ args \in [ price : 0..MaxFmtPrice, price_format : TemplateInputs ]
    /\ pc = "format_price"
    /\ calls = <<>>
    /\ requests = <<>>
    /\ response = NoneRecord
    /\ product_info = NoneRecord
    /\ price_text = None
    /\ barcode_img = FALSE
    /\ layout = NoneRecord
    /\ canvas = FALSE
    /\ file = "absent"
    /\ saves = 0
    /\ out = <<>>
    /\ exit_code = NoExit
    /\ ret = NoneRecord

CallFormat ==
    /\ pc = "format_price"
    /\ ret' = format_price(args.price, args.price_format)
    /\ pc' = "returned"
    /\ UNCHANGED <<args, calls, requests, response, product_info, price_text,
                   barcode_img, layout, canvas, file, saves, out, exit_code>>

NextFormat == CallFormat

SpecFormat == InitFormat /\ [][NextFormat]_vars

\* ------------------------------------------------------------------------
\* the geometry of create_label for given measured widths
\* ------------------------------------------------------------------------
WidthInputs == {0, 1} \cup ((barcode_width - 1)..MaxTextWidth)

InitLayout ==
    /\ args \in [ name_width : WidthInputs, producer_width : WidthInputs,
                  ean_width : WidthInputs, price_width : WidthInputs ]
    /\ pc = "geometry"
    /\ calls = <<>>
    /\ requests = <<>>
    /\ response = NoneRecord
    /\ product_info = NoneRecord
    /\ price_text = None
    /\ barcode_img = FALSE
    /\ layout = NoneRecord
    /\ canvas = FALSE
    /\ file = "absent"
    /\ saves = 0
    /\ out = <<>>
    /\ exit_code = NoExit
    /\ ret = NoneRecord

CallGeometry ==
    /\ pc = "geometry"
    /\ ret' = Geometry(args.name_width, args.producer_width, args.ean_width, args.price_width)
    /\ pc' = "returned"
    /\ UNCHANGED <<args, calls, requests, response, product_info, price_text,
                   barcode_img, layout, canvas, file, saves, out, exit_code>>

NextLayout == CallGeometry

SpecLayout == InitLayout /\ [][NextLayout]_vars

\* ------------------------------------------------------------------------
\* Properties
\* ------------------------------------------------------------------------

\* C1 (as stated): whenever both --name and --producer are given (neither is
\* None), fetch_product_info is never invoked.
C1_GivenOverridesNoLookup ==
    (args.name # None /\ args.producer # None) =>
        (requests = <<>> /\ \A i \in 1..Len(calls) : calls[i] # "fetch_product_info")

\* C1 (amended): whenever both overrides are given and non-empty,
\* fetch_product_info is never invoked and no request is issued, whatever
\* the identifier, price, language and price format are.
C1_NonEmptyOverridesNoLookup ==
    (args.name \notin {None, <<>>} /\ args.producer \notin {None, <<>>}) =>
        /\ requests = <<>>
        /\ response = NoneRecord
        /\ \A i \in 1..Len(calls) : calls[i] # "fetch_product_info"

C1_Witness ==
    /\ args.name = <<"T", "e", "a">>
    /\ args.producer = <<"A", "c", "m", "e">>
    /\ args.lang = "pl"
    /\ pc = "done"
    /\ exit_code = 0
    /\ product_info.name = <<"T", "e", "a">>
    /\ requests = <<>>

\* C2: an identifier that is not exactly 13 digits, or a price below 0, is a
\* usage error before any processing: create_label is never called, no
\* request is issued, no barcode is rendered, nothing is written to the
\* output path, and the process ends with exit code 2.
C2_UsageErrorBeforeWork ==
    LET digits == {"0", "1", "2", "3", "4", "5", "6", "7", "8", "9"}
        badEan == Len(args.ean) # 13 \/ \E i \in 1..Len(args.ean) : args.ean[i] \notin digits
    IN  (badEan \/ args.price < 0) =>
            /\ pc \in {"main", "done"}
            /\ calls = <<>>
            /\ requests = <<>>
            /\ ~barcode_img
            /\ ~canvas
            /\ saves = 0
            /\ file \in {"absent", "old"}
            /\ pc = "done" => (exit_code = 2 /\ Len(out) = 1 /\ out[1].line = "usage")

C2_Witness ==
    /\ pc = "done"
    /\ exit_code = 2
    /\ Len(args.ean) = 13
    /\ args.ean[13] = "a"
    /\ args.name \notin {None, <<>>}
    /\ args.producer \notin {None, <<>>}
    /\ file = "absent"

\* C3: the exit code is set exactly when main ends, and tells the outcome:
\* 0 exactly when the label was saved, with the two lines printed; 1 exactly
\* when the arguments were valid and a step of create_label failed, with the
\* single Error line printed; 2 exactly when the arguments were invalid.
C3_ExitCodeByOutcome ==
    LET digits == {"0", "1", "2", "3", "4", "5", "6", "7", "8", "9"}
        badArgs == \/ Len(args.ean) # 13
                   \/ \E i \in 1..Len(args.ean) : args.ean[i] \notin digits
                   \/ args.price < 0
        saved == file = "complete" /\ canvas /\ saves = 1
    IN  /\ pc # "done" => exit_code = NoExit
        /\ pc = "done" =>
              /\ exit_code \in {0, 1, 2}
              /\ exit_code = 2 <=> badArgs
              /\ exit_code = 0 <=> (~badArgs /\ saved)
              /\ exit_code = 1 <=> (~badArgs /\ ~saved)
              /\ exit_code = 0 =>
                    /\ Len(out) = 2
                    /\ out[1].line = "Label saved"
                    /\ out[2].line = "Dimensions"
              /\ exit_code = 1 => (Len(out) = 1 /\ out[1].line = "Error")

C3_Witness ==
    /\ pc = "done"
    /\ exit_code = 1
    /\ saves = 1
    /\ canvas
    /\ out = <<[line |-> "Error", msg |-> "OSError"]>>

\* C4: when an override is missing and the lookup fails (the status code is
\* not 200 or the status field of the body is not 1), create_label ends with
\* the lookup error: the price is not formatted, the barcode is not rendered,
\* nothing is saved and the output path is untouched.
C4_LookupFailureAborts ==
    ( /\ args.name = None \/ args.producer = None
      /\ response # NoneRecord
      /\ response.raised \/ response.status_code # 200 \/ response.status # 1 ) =>
        /\ pc = "done"
        /\ exit_code = 1
        /\ out = <<[line |-> "Error",
                    msg |-> IF response.raised THEN "ConnectionError"
                            ELSE IF response.status_code # 200 THEN "HTTP"
                            ELSE "NotFound"]>>
        /\ calls = <<"create_label", "fetch_product_info">>
        /\ product_info = NoneRecord
        /\ price_text = None
        /\ ~barcode_img
        /\ ~canvas
        /\ saves = 0
        /\ file \in {"absent", "old"}

C4_Witness ==
    /\ args.name = None
    /\ args.producer = <<"A", "c", "m", "e">>
    /\ response # NoneRecord
    /\ ~response.raised
    /\ response.status_code = 200
    /\ response.status = 0
    /\ pc = "done"
    /\ exit_code = 1

\* C5 (as stated): after a successful lookup with exactly one override given
\* (the other is None), the given field of the record is the override and
\* the other field is the one returned by the lookup.
C5_GivenOverrideWins ==
    LET looked(v, default) == IF v = None THEN default ELSE v IN
    (product_info # NoneRecord /\ response # NoneRecord) =>
        /\ (args.name # None /\ args.producer = None) =>
              /\ product_info.name = args.name
              /\ product_info.producer = looked(response.brands, UnknownBrand)
        /\ (args.producer # None /\ args.name = None) =>
              /\ product_info.producer = args.producer
              /\ product_info.name = looked(response.product_name, UnknownProduct)

\* C5 (amended): after a successful lookup with exactly one non-empty
\* override, that field of the record is the override and the other field
\* is the value of the lookup response; the default is used only when the
\* response has no such key.
C5_NonEmptyOverrideWins ==
    LET looked(v, default) == IF v = None THEN default ELSE v
        given(x) == x \notin {None, <<>>}
    IN
    (product_info # NoneRecord /\ response # NoneRecord) =>
        /\ (given(args.name) /\ ~given(args.producer)) =>
              /\ product_info.name = args.name
              /\ product_info.producer = looked(response.brands, UnknownBrand)
        /\ (given(args.producer) /\ ~given(args.name)) =>
              /\ product_info.producer = args.producer
              /\ product_info.name = looked(response.product_name, UnknownProduct)

C5_Witness ==
    /\ args.name = <<"T", "e", "a">>
    /\ args.producer = None
    /\ response # NoneRecord
    /\ response.brands = LookupBrand
    /\ product_info # NoneRecord
    /\ product_info.name = <<"T", "e", "a">>
    /\ product_info.producer = <<"C", "o", "c", "a">>

\* C6: for a price p >= 0 and the template "${price}", format_price returns
\* "$", the digits of p div 100, a dot and the two digits of p mod 100, and
\* reading the two numbers back gives p.
C6_DefaultFormatRoundTrip ==
    (pc = "returned" /\ args.price_format = <<"$", "{", "p", "r", "i", "c", "e", "}">>) =>
        LET t == ret.text
            n == Len(t)
            p == args.price
            digitOf == [c \in {"0", "1", "2", "3", "4", "5", "6", "7", "8", "9"} |->
                          CASE c = "0" -> 0 [] c = "1" -> 1 [] c = "2" -> 2 [] c = "3" -> 3
                            [] c = "4" -> 4 [] c = "5" -> 5 [] c = "6" -> 6 [] c = "7" -> 7
                            [] c = "8" -> 8 [] c = "9" -> 9]
            isDigits(sq) == \A i \in 1..Len(sq) : sq[i] \in DOMAIN digitOf
            value[k \in 0..n] ==
                IF k = 0 THEN [lo \in 1..(n + 1) |-> 0]
                ELSE [lo \in 1..(n + 1) |->
                        IF k < lo THEN 0 ELSE 10 * value[k - 1][lo] + digitOf[t[k]]]
            majText == SubSeq(t, 2, n - 3)
            minText == SubSeq(t, n - 1, n)
        IN  /\ ret.err = "none"
            /\ n >= 5
            /\ t[1] = "$"
            /\ t[n - 2] = "."
            /\ isDigits(majText)
            /\ isDigits(minText)
            /\ LET maj == value[n - 3][2]
                   mn == 10 * digitOf[t[n - 1]] + digitOf[t[n]]
               IN  /\ maj = p \div 100
                   /\ mn = p % 100
                   /\ mn \in 0..99
                   /\ maj * 100 + mn = p
            /\ p = 0 => t = <<"$", "0", ".", "0", "0">>
            /\ p = 299 => t = <<"$", "2", ".", "9", "9">>

C6_Witness ==
    /\ pc = "returned"
    /\ args.price = 1205
    /\ args.price_format = <<"$", "{", "p", "r", "i", "c", "e", "}">>
    /\ ret.text = <<"$", "1", "2", ".", "0", "5">>

\* C7: with a template that names a placeholder other than maj, min and
\* price, format_price fails and create_label stops there: the barcode is
\* never rendered, nothing is measured or painted, and nothing is saved.
C7_UnknownPlaceholderAborts ==
    (args.price_format \in { <<"{", "b", "o", "g", "u", "s", "}">>,
                             <<"{", "m", "a", "j", "}", "{", "x", "}">> }) =>
        /\ pc \in {"main", "resolve", "format", "done"}
        /\ price_text = None
        /\ ~barcode_img
        /\ layout = NoneRecord
        /\ ~canvas
        /\ saves = 0
        /\ file \in {"absent", "old"}
        /\ \A i \in 1..Len(calls) :
              calls[i] \notin {"generate_barcode_image", "textbbox", "paint", "save"}
        /\ (pc = "done" /\ product_info # NoneRecord) =>
              /\ exit_code = 1
              /\ out = <<[line |-> "Error", msg |-> "KeyError"]>>
              /\ calls[Len(calls)] = "format_price"

C7_Witness ==
    /\ args.price_format = <<"{", "b", "o", "g", "u", "s", "}">>
    /\ pc = "done"
    /\ product_info # NoneRecord
    /\ exit_code = 1
    /\ calls = <<"create_label", "fetch_product_info", "format_price">>

\* C8: img.save is called at most once, only after the record, the price
\* text, the barcode, the measurement and the painting are there, and an
\* execution that ends in a failure leaves no partial file at the output
\* path.
C8_SaveLastNoPartialFile ==
    /\ saves <= 1
    /\ saves = 1 =>
          /\ product_info # NoneRecord
          /\ price_text # None
          /\ barcode_img
          /\ layout # NoneRecord
          /\ canvas
    /\ (pc = "done" /\ exit_code # 0) => file # "partial"

\* C9: for measured widths nw, pw, ew, cw >= 0 the left region is
\* max(nw, pw, ew, 240) + 48 wide, the right region cw + 48, the canvas
\* 40 + left + right wide (at least 376, more than 40 + 48) and 384 high;
\* the separator is at 40 + left and the price starts 24 to its right,
\* inside the canvas.
C9_Geometry ==
    (pc = "returned") =>
        LET nw == args.name_width
            pw == args.producer_width
            ew == args.ean_width
            cw == args.price_width
            m == CHOOSE x \in {nw, pw, ew, 240} : \A y \in {nw, pw, ew, 240} : x >= y
        IN  /\ ret.left_width = m + 48
            /\ ret.right_width = cw + 48
            /\ ret.total_width = 40 + ret.left_width + ret.right_width
            /\ ret.height_px = 384
            /\ ret.total_width > 40 + 48
            /\ ret.total_width >= 376
            /\ ret.separator_x = 40 + ret.left_width
            /\ ret.x_price = ret.separator_x + 24
            /\ ret.x_price > ret.separator_x
            /\ ret.x_price < ret.total_width

C9_Witness ==
    /\ pc = "returned"
    /\ args.name_width = 0
    /\ args.producer_width = 241
    /\ args.price_width = 0
    /\ ret.left_width = 289
    /\ ret.total_width = 377

\* C10: an override given as the empty string counts as not given: the
\* lookup is made, the looked-up value of that field is kept, a failed
\* lookup ends the run with exit code 1, and the lookup is skipped only
\* when both overrides are non-empty.
C10_EmptyOverrideNotGiven ==
    LET looked(v, default) == IF v = None THEN default ELSE v
        resolved == pc \notin {"main", "resolve"} /\ exit_code # 2
    IN  /\ (resolved /\ (args.name = <<>> \/ args.producer = <<>>)) =>
              /\ requests = <<Domain(args.lang)>>
              /\ response # NoneRecord
              /\ product_info = NoneRecord => (pc = "done" /\ exit_code = 1 /\ saves = 0)
              /\ (product_info # NoneRecord /\ args.name = <<>>) =>
                    product_info.name = looked(response.product_name, UnknownProduct)
              /\ (product_info # NoneRecord /\ args.producer = <<>>) =>
                    product_info.producer = looked(response.brands, UnknownBrand)
        /\ (resolved /\ requests = <<>>) =>
              (args.name \notin {None, <<>>} /\ args.producer \notin {None, <<>>})

C10_Witness ==
    /\ args.name = <<>>
    /\ args.producer = <<"A", "c", "m", "e">>
    /\ requests = <<"world.openfoodfacts.org">>
    /\ response # NoneRecord
    /\ response.product_name = LookupName
    /\ product_info # NoneRecord
    /\ product_info.name = <<"C", "o", "l", "a">>
    /\ product_info.producer = <<"A", "c", "m", "e">>

====
